---- MODULE Spec2Model ----
(***************************************************************************)
(* NiraCare: the response normalizer (_extract_json_from_response), the    *)
(* five agent functions and the two pipeline entry points                  *)
(* (run_niracare_demo, run_niracare_with_user_answers).                    *)
(*                                                                         *)
(* Text is a sequence of one-character strings.  A decoded JSON value is a *)
(* record with the same five fields whatever its type, so that any two     *)
(* values can be compared:                                                 *)
(*   t = "int"  : n is the number                                          *)
(*   t = "str"  : s is the text                                            *)
(*   t = "list" : items are the elements                                   *)
(*   t = "dict" : keys (texts, in insertion order) and items (same order)  *)
(***************************************************************************)
EXTENDS Integers, Sequences, FiniteSets, TLC

(***************************************************************************)
(* Bounds of the model.                                                    *)
(***************************************************************************)
\* longest body of a reply enumerated for the normalizer
MaxBody == 4
\* longest question list a clarifier reply carries
MaxQuestions == 2

(***************************************************************************)
(* Program constants.                                                      *)
(***************************************************************************)
\* response[7:]
JsonFenceLen == 7
\* response[3:] and response[:-3]
FenceLen == 3

(***************************************************************************)
(* Text helpers (Python str methods).                                      *)
(***************************************************************************)
\* characters str.strip() removes and the JSON decoder skips
Whitespace == {" ", "\n", "\t", "\r"}

Digits == {"0", "1", "2", "3", "4", "5", "6", "7", "8", "9"}

DigitValue(c) ==
    CASE c = "0" -> 0 [] c = "1" -> 1 [] c = "2" -> 2 [] c = "3" -> 3
      [] c = "4" -> 4 [] c = "5" -> 5 [] c = "6" -> 6 [] c = "7" -> 7
      [] c = "8" -> 8 [] c = "9" -> 9

\* the backquote character, which a TLA+ string cannot hold
Backquote == "bq"

Fence == <<Backquote, Backquote, Backquote>>

JsonFence == Fence \o <<"j", "s", "o", "n">>

\* s[from:] with a 0-based Python index, i.e. drop the first k characters
DropFirst(s, k) == IF k >= Len(s) THEN <<>> ELSE SubSeq(s, k + 1, Len(s))

\* s[:-k]
DropLast(s, k) == IF k >= Len(s) THEN <<>> ELSE SubSeq(s, 1, Len(s) - k)

startswith(s, p) == Len(s) >= Len(p) /\ SubSeq(s, 1, Len(p)) = p

endswith(s, p) == Len(s) >= Len(p) /\ SubSeq(s, Len(s) - Len(p) + 1, Len(s)) = p

RECURSIVE FirstNonSpace(_, _)
\* index of the first non-whitespace character at or after i, Len(s)+1 if none
FirstNonSpace(s, i) ==
    IF i <= Len(s) /\ s[i] \in Whitespace THEN FirstNonSpace(s, i + 1) ELSE i

RECURSIVE LastNonSpace(_, _)
\* index of the last non-whitespace character at or before i, 0 if none
LastNonSpace(s, i) ==
    IF i >= 1 /\ s[i] \in Whitespace THEN LastNonSpace(s, i - 1) ELSE i

strip(s) == SubSeq(s, FirstNonSpace(s, 1), LastNonSpace(s, Len(s)))

RECURSIVE FindFrom(_, _, _)
\* str.find(c): 1-based index of the first c at or after i, 0 when absent
FindFrom(s, c, i) ==
    IF i > Len(s) THEN 0
    ELSE IF s[i] = c THEN i ELSE FindFrom(s, c, i + 1)

find(s, c) == FindFrom(s, c, 1)

RECURSIVE RFindFrom(_, _, _)
\* str.rfind(c): 1-based index of the last c at or before i, 0 when absent
RFindFrom(s, c, i) ==
    IF i < 1 THEN 0
    ELSE IF s[i] = c THEN i ELSE RFindFrom(s, c, i - 1)

rfind(s, c) == RFindFrom(s, c, Len(s))

(***************************************************************************)
(* JSON values.                                                            *)
(***************************************************************************)
JInt(n) == [t |-> "int", n |-> n, s |-> <<>>, keys |-> <<>>, items |-> <<>>]

JStr(s) == [t |-> "str", n |-> 0, s |-> s, keys |-> <<>>, items |-> <<>>]

JList(items) == [t |-> "list", n |-> 0, s |-> <<>>, keys |-> <<>>, items |-> items]

JDict(keys, items) == [t |-> "dict", n |-> 0, s |-> <<>>, keys |-> keys, items |-> items]

\* {} : the value of field(default_factory=dict)
EmptyDict == JDict(<<>>, <<>>)

\* [] : the value of field(default_factory=list)
EmptyList == JList(<<>>)

\* dict.__setitem__: a repeated key keeps its position and takes the new value
DictSet(d, k, v) ==
    LET i == find(d.keys, k)
    IN  IF i = 0
        THEN JDict(Append(d.keys, k), Append(d.items, v))
        ELSE JDict(d.keys, [d.items EXCEPT ![i] = v])

\* dict.get(k, default)
DictGet(d, k, default) ==
    LET i == find(d.keys, k)
    IN  IF i = 0 THEN default ELSE d.items[i]

\* bool(v)
Truthy(v) ==
    CASE v.t = "int" -> v.n # 0
      [] v.t = "str" -> v.s # <<>>
      [] v.t = "list" -> v.items # <<>>
      [] v.t = "dict" -> v.keys # <<>>

(***************************************************************************)
(* json.loads, restricted to the JSON the replies of this model can spell: *)
(* objects, arrays, strings without escapes and non-negative integers.     *)
(* A result is [ok, val, pos]: pos is the index after the value.           *)
(***************************************************************************)
ScanFail == [ok |-> FALSE, val |-> EmptyDict, pos |-> 0]

ScanOk(v, p) == [ok |-> TRUE, val |-> v, pos |-> p]

RECURSIVE ScanString(_, _, _)
\* py_scanstring from index i (after the opening quote), acc the text so far;
\* a control character inside a string is an error (strict mode)
ScanString(s, i, acc) ==
    IF i > Len(s) THEN ScanFail
    ELSE IF s[i] = "\"" THEN ScanOk(JStr(acc), i + 1)
    ELSE IF s[i] \in {"\n", "\t", "\r", "\\"} THEN ScanFail
    ELSE ScanString(s, i + 1, Append(acc, s[i]))

RECURSIVE ScanDigits(_, _, _)
\* the digits matched by [0-9]* from index i, acc the number so far
ScanDigits(s, i, acc) ==
    IF i <= Len(s) /\ s[i] \in Digits
    THEN ScanDigits(s, i + 1, acc * 10 + DigitValue(s[i]))
    ELSE ScanOk(JInt(acc), i)

\* NUMBER_RE: (0|[1-9][0-9]*), so a leading 0 ends the number
ScanNumber(s, i) ==
    IF s[i] = "0" THEN ScanOk(JInt(0), i + 1) ELSE ScanDigits(s, i, 0)

RECURSIVE ScanOnce(_, _), ScanObject(_, _, _), ScanArray(_, _, _)
\* scanner.py_make_scanner._scan_once
ScanOnce(s, i) ==
    IF i > Len(s) THEN ScanFail
    ELSE IF s[i] = "\"" THEN ScanString(s, i + 1, <<>>)
    ELSE IF s[i] = "{" THEN
        LET j == FirstNonSpace(s, i + 1)
        IN  IF j > Len(s) THEN ScanFail
            ELSE IF s[j] = "}" THEN ScanOk(EmptyDict, j + 1)
            ELSE IF s[j] = "\"" THEN ScanObject(s, j, EmptyDict)
            ELSE ScanFail
    ELSE IF s[i] = "[" THEN
        LET j == FirstNonSpace(s, i + 1)
        IN  IF j > Len(s) THEN ScanFail
            ELSE IF s[j] = "]" THEN ScanOk(EmptyList, j + 1)
            ELSE ScanArray(s, j, <<>>)
    ELSE IF s[i] \in Digits THEN ScanNumber(s, i)
    ELSE ScanFail

\* decoder.JSONObject: the pairs loop, s[i] being the quote that opens a key
ScanObject(s, i, acc) ==
    LET key == ScanString(s, i + 1, <<>>)
    IN  IF ~key.ok THEN ScanFail
        ELSE
        LET c == FirstNonSpace(s, key.pos)
        IN  IF c > Len(s) \/ s[c] # ":" THEN ScanFail
            ELSE
            LET value == ScanOnce(s, FirstNonSpace(s, c + 1))
            IN  IF ~value.ok THEN ScanFail
                ELSE
                LET e == FirstNonSpace(s, value.pos)
                    d == DictSet(acc, key.val.s, value.val)
                IN  IF e > Len(s) THEN ScanFail
                    ELSE IF s[e] = "}" THEN ScanOk(d, e + 1)
                    ELSE IF s[e] # "," THEN ScanFail
                    ELSE
                    LET k == FirstNonSpace(s, e + 1)
                    IN  IF k > Len(s) \/ s[k] # "\"" THEN ScanFail
                        ELSE ScanObject(s, k, d)

\* decoder.JSONArray: the values loop, i being where the next value starts
ScanArray(s, i, acc) ==
    LET value == ScanOnce(s, i)
    IN  IF ~value.ok THEN ScanFail
        ELSE
        LET e == FirstNonSpace(s, value.pos)
            a == Append(acc, value.val)
        IN  IF e > Len(s) THEN ScanFail
            ELSE IF s[e] = "]" THEN ScanOk(JList(a), e + 1)
            ELSE IF s[e] # "," THEN ScanFail
            ELSE ScanArray(s, FirstNonSpace(s, e + 1), a)

\* json.loads: one value between optional whitespace, nothing after it
json_loads(s) ==
    LET r == ScanOnce(s, FirstNonSpace(s, 1))
    IN  IF r.ok /\ FirstNonSpace(s, r.pos) > Len(s) THEN r ELSE ScanFail

(***************************************************************************)
(* _extract_json_from_response.  A call result is a record: ok (returned  *)
(* or raised), val (the JSON value returned), text (the text returned, for *)
(* the summary agent), exc and msg (the exception raised and its message), *)
(* normalized (whether _extract_json_from_response was called).            *)
(***************************************************************************)
Returned(v) ==
    [ok |-> TRUE, val |-> v, text |-> <<>>, exc |-> "none", msg |-> "none",
     normalized |-> TRUE]

\* raise ValueError("Failed to parse JSON from agent response. ...")
FormatError ==
    [ok |-> FALSE, val |-> EmptyDict, text |-> <<>>, exc |-> "ValueError",
     msg |-> "Failed to parse JSON from agent response", normalized |-> TRUE]

\* the markdown code block opening, removed
StripOpeningFence(response) ==
    IF startswith(response, JsonFence) THEN DropFirst(response, JsonFenceLen)
    ELSE IF startswith(response, Fence) THEN DropFirst(response, FenceLen)
    ELSE response

\* the markdown code block closing, removed
StripClosingFence(response) ==
    IF endswith(response, Fence) THEN DropLast(response, FenceLen) ELSE response

\* (mutant of SliceObject) the span ends at the first "}", not the last
SliceObjectToFirstClose(response) ==
    LET start_idx == find(response, "{")
        end_idx == find(response, "}")
    IN  IF start_idx # 0 /\ end_idx # 0 /\ end_idx > start_idx
        THEN SubSeq(response, start_idx, end_idx)
        ELSE response

\* the JSON object boundaries: first "{" to last "}"
SliceObject(response) ==
    LET start_idx == find(response, "{")
        end_idx == rfind(response, "}")
    IN  IF start_idx # 0 /\ end_idx # 0 /\ end_idx > start_idx
        THEN SubSeq(response, start_idx, end_idx)
        ELSE response

\* (mutant of ExtractText) the text is not cut to the object boundaries
ExtractTextNoSlice(response) ==
    strip(StripClosingFence(StripOpeningFence(strip(response))))

\* the text handed to json.loads
ExtractText(response) ==
    SliceObject(strip(StripClosingFence(StripOpeningFence(strip(response)))))

extract_json_from_response(response) ==
    LET r == json_loads(ExtractText(response))
    IN  IF r.ok THEN Returned(r.val) ELSE FormatError

(***************************************************************************)
(* The five agents.  reply is the text of the model's response             *)
(* (response.text); no text, None or "", is the empty sequence.            *)
(***************************************************************************)
\* raise ValueError("No response received from ...Agent")
NoResponse(message) ==
    [ok |-> FALSE, val |-> EmptyDict, text |-> <<>>, exc |-> "ValueError",
     msg |-> message, normalized |-> FALSE]

run_intake_agent(raw_text, reply) ==
    IF reply = <<>> THEN NoResponse("No response received from IntakeAgent")
    ELSE extract_json_from_response(reply)

run_clarifier_agent(raw_text, intake_json, reply) ==
    IF reply = <<>> THEN NoResponse("No response received from ClarifierAgent")
    ELSE extract_json_from_response(reply)

\* the note is response_text.strip(), tested for emptiness before the strip
run_summary_agent(raw_text, intake_json, clarifier_answers, reply) ==
    IF reply = <<>> THEN NoResponse("No response received from SummaryAgent")
    ELSE [ok |-> TRUE, val |-> EmptyDict, text |-> strip(reply), exc |-> "none",
          msg |-> "none", normalized |-> FALSE]

run_routing_agent(raw_text, intake_json, reply) ==
    IF reply = <<>> THEN NoResponse("No response received from RoutingAgent")
    ELSE extract_json_from_response(reply)

\* (mutant of run_eval_agent) the text is not tested before it is parsed
run_eval_agent_untested(doctor_note, reply) == extract_json_from_response(reply)

run_eval_agent(doctor_note, reply) ==
    IF reply = <<>> THEN NoResponse("No response received from EvalAgent")
    ELSE extract_json_from_response(reply)

(***************************************************************************)
(* Python semantics the pipeline relies on.                                *)
(***************************************************************************)
\* text of a key or of a question
questions_key == <<"q", "u", "e", "s", "t", "i", "o", "n", "s">>

symptoms_key == <<"s", "y", "m", "p", "t", "o", "m", "s">>

score_key == <<"s", "c", "o", "r", "e">>

recommended_doctors_key ==
    <<"r", "e", "c", "o", "m", "m", "e", "n", "d", "e", "d", "_",
      "d", "o", "c", "t", "o", "r", "s">>

possible_test_categories_key ==
    <<"p", "o", "s", "s", "i", "b", "l", "e", "_", "t", "e", "s", "t", "_",
      "c", "a", "t", "e", "g", "o", "r", "i", "e", "s">>

\* "Demo answer for: "
DemoAnswerPrefix ==
    <<"D", "e", "m", "o", " ", "a", "n", "s", "w", "e", "r", " ",
      "f", "o", "r", ":", " ">>

\* iter(v): a list gives its elements, a str its characters, a dict its keys;
\* an int is not iterable (TypeError)
Iterable(v) == v.t # "int"

Elements(v) ==
    CASE v.t = "list" -> v.items
      [] v.t = "str" -> [i \in 1..Len(v.s) |-> JStr(<<v.s[i]>>)]
      [] v.t = "dict" -> [i \in 1..Len(v.keys) |-> JStr(v.keys[i])]
      [] v.t = "int" -> <<>>

\* hash(v): a list or a dict is unhashable (TypeError)
Hashable(v) == v.t \in {"int", "str"}

\* v.get exists: only a dict has the method (AttributeError otherwise)
HasGet(v) == v.t = "dict"

\* len(v) is defined: not for an int (TypeError)
HasLen(v) == v.t # "int"

RECURSIVE IntText(_)
\* str(n) for n >= 0
IntText(n) ==
    LET d == CHOOSE c \in Digits : DigitValue(c) = n % 10
    IN  IF n < 10 THEN <<d>> ELSE Append(IntText(n \div 10), d)

\* the f-string field {question}, for a hashable value
Format(v) == IF v.t = "str" THEN v.s ELSE IntText(v.n)

(***************************************************************************)
(* An answers mapping (Dict[str, str]) is a sequence of entries [q, a] in  *)
(* insertion order, no two with the same q.                                *)
(***************************************************************************)
RECURSIVE KeyIndex(_, _, _)
\* index of the entry of key q at or after i, 0 when absent
KeyIndex(answers, q, i) ==
    IF i > Len(answers) THEN 0
    ELSE IF answers[i].q = q THEN i ELSE KeyIndex(answers, q, i + 1)

\* answers[q] = a
AnswersSet(answers, q, a) ==
    LET i == KeyIndex(answers, q, 1)
    IN  IF i = 0 THEN Append(answers, [q |-> q, a |-> a])
        ELSE [answers EXCEPT ![i] = [q |-> q, a |-> a]]

Keys(answers) == {answers[i].q : i \in 1..Len(answers)}

\* answers[q], for q a key
Answer(answers, q) == answers[KeyIndex(answers, q, 1)].a

RECURSIVE AutoAnswerLoopNoTemplate(_, _, _)
\* (mutant of AutoAnswerLoop) the answer is the question, without the template
AutoAnswerLoopNoTemplate(elements, i, answers) ==
    IF i > Len(elements) THEN answers
    ELSE AutoAnswerLoopNoTemplate(elements, i + 1,
            AnswersSet(answers, elements[i], Format(elements[i])))

RECURSIVE AutoAnswerLoop(_, _, _)
\* the for loop of auto_answer_clarifier_questions from element i on
AutoAnswerLoop(elements, i, answers) ==
    IF i > Len(elements) THEN answers
    ELSE AutoAnswerLoop(elements, i + 1,
            AnswersSet(answers, elements[i],
                       DemoAnswerPrefix \o Format(elements[i])))

\* the result is [ok, answers, exc]: exc is the exception the loop raised
auto_answer_clarifier_questions(questions) ==
    IF ~Iterable(questions) \/ \E i \in 1..Len(Elements(questions)) :
                                    ~Hashable(Elements(questions)[i])
    THEN [ok |-> FALSE, answers |-> <<>>, exc |-> "TypeError"]
    ELSE [ok |-> TRUE, answers |-> AutoAnswerLoop(Elements(questions), 1, <<>>),
          exc |-> "none"]

(***************************************************************************)
(* The inputs: the caller's arguments and the replies of the model.        *)
(***************************************************************************)
Quoted(text) == <<"\"">> \o text \o <<"\"">>

\* the text {"key":value}
ObjectText(key, value) == <<"{">> \o Quoted(key) \o <<":">> \o value \o <<"}">>

RECURSIVE Joined(_)
\* the texts of a sequence, separated by commas
Joined(texts) ==
    IF texts = <<>> THEN <<>>
    ELSE IF Len(texts) = 1 THEN texts[1]
    ELSE texts[1] \o <<",">> \o Joined(Tail(texts))

\* the text [t1,t2,...]
ArrayText(texts) == <<"[">> \o Joined(texts) \o <<"]">>

SeqsUpTo(S, n) == UNION {[1..k -> S] : k \in 0..n}

RawTexts == {<<"h", "e", "a", "d", "a", "c", "h", "e">>}

\* the questions a clarifier reply is made of
QuestionTexts == {<<"a">>, <<"b">>}

QuestionLists == SeqsUpTo({Quoted(q) : q \in QuestionTexts}, MaxQuestions)

\* a reply that is no JSON
Garbage == <<"s", "o", "r", "r", "y">>

IntakeReplies ==
    { <<>>, Garbage, <<"{", "}">>, <<"[", "]">>,
      ObjectText(symptoms_key, <<"[", "]">>),
      ObjectText(symptoms_key, ArrayText(<<ObjectText(<<"n", "a", "m", "e">>, Quoted(<<"a">>))>>)),
      ObjectText(symptoms_key, <<"1">>) }

ClarifierReplies ==
    { <<>>, Garbage, <<"{", "}">>, <<"[", "]">>,
      ObjectText(questions_key, <<"1">>),
      ObjectText(questions_key, <<"0">>),
      ObjectText(questions_key, <<"[", "[", "]", "]">>),
      ObjectText(questions_key, Quoted(<<"a", "b">>)),
      JsonFence \o <<"\n">> \o ObjectText(questions_key, ArrayText(<<Quoted(<<"a">>)>>))
          \o <<"\n">> \o Fence }
    \cup {ObjectText(questions_key, ArrayText(qs)) : qs \in QuestionLists}

SummaryReplies == { <<>>, <<" ">>, <<"n", "o", "t", "e">>, <<" ", "n", "o", "t", "e", "\n">> }

RoutingReplies ==
    { <<>>, Garbage, <<"{", "}">>, <<"[", "]">>,
      ObjectText(recommended_doctors_key,
                 ArrayText(<<ObjectText(<<"t", "y", "p", "e">>, Quoted(<<"a">>))>>)),
      ObjectText(recommended_doctors_key, <<"[", "1", "]">>),
      ObjectText(recommended_doctors_key, <<"0">>),
      ObjectText(possible_test_categories_key, Quoted(<<"a">>)) }

EvalReplies ==
    { <<>>, Garbage, <<"{", "}">>, <<"[", "]">>,
      ObjectText(score_key, <<"8">>),
      ObjectText(score_key, <<"1", "1">>),
      ObjectText(score_key, Quoted(<<"8">>)) }

\* the mappings a caller passes to run_niracare_with_user_answers
UserAnswers ==
    { <<>>,
      <<[q |-> JStr(<<"a">>), a |-> <<"y", "e", "s">>]>>,
      <<[q |-> JStr(<<"a">>), a |-> <<"y", "e", "s">>],
        [q |-> JStr(<<"b">>), a |-> <<"n", "o">>]>>,
      <<[q |-> JStr(<<"c">>), a |-> <<"n", "o">>]>> }

(***************************************************************************)
(* The state.                                                              *)
(***************************************************************************)
VARIABLES
    entry,          \* the entry point running
    raw_text,       \* its raw_text argument
    user_answers,   \* its user_answers argument
    pc,             \* the step the run is at, "returned" or "raised"
    session,        \* the NiraSession
    error,          \* the exception that ended the run
    calls,          \* the agent calls made so far, with arguments and results
    response,       \* the text given to _extract_json_from_response alone
    result,         \* its result
    fenced_result,  \* its result on the same text inside a code fence
    npc             \* the step of that computation

vars ==
    <<entry, raw_text, user_answers, pc, session, error, calls,
      response, result, fenced_result, npc>>

pipelineVars == <<entry, raw_text, user_answers, pc, session, error, calls>>

normalizerVars == <<response, result, fenced_result, npc>>

\* NiraSession(raw_text=raw_text)
NiraSession(raw) ==
    [raw_text |-> raw,
     intake_json |-> EmptyDict,
     clarifier_questions |-> EmptyList,
     clarifier_answers |-> <<>>,
     doctor_note |-> <<>>,
     routing_guidance |-> EmptyDict,
     eval_result |-> EmptyDict]

NoError == [type |-> "none", msg |-> "none", step |-> "none"]

\* an exception leaving the entry point at a step
Exception(type, msg, step) == [type |-> type, msg |-> msg, step |-> step]

\* the record of one agent call: the arguments it was given, the text of the
\* model's response and the result r of the agent
Call(stage, raw, intake, answers, note, reply, r) ==
    [stage |-> stage, raw_text |-> raw, intake_json |-> intake,
     clarifier_answers |-> answers, doctor_note |-> note, reply |-> reply,
     ok |-> r.ok, val |-> r.val, text |-> r.text, exc |-> r.exc, msg |-> r.msg,
     normalized |-> r.normalized]

NotRun ==
    [ok |-> FALSE, val |-> EmptyDict, text |-> <<>>, exc |-> "none", msg |-> "none",
     normalized |-> FALSE]

Init ==
    /\ entry \in {"run_niracare_demo", "run_niracare_with_user_answers"}
    /\ user_answers \in (IF entry = "run_niracare_demo" THEN {<<>>} ELSE UserAnswers)
    /\ raw_text \in RawTexts
    /\ pc = "intake"
    /\ session = NiraSession(raw_text)
    /\ error = NoError
    /\ calls = <<>>
    /\ response = <<>>
    /\ result = NotRun
    /\ fenced_result = NotRun
    /\ npc = "off"

(***************************************************************************)
(* run_niracare_demo, one action per step.                                 *)
(***************************************************************************)
Demo == entry = "run_niracare_demo"

\* Step 1: try: session.intake_json = run_intake_agent(raw_text) except: raise
DemoIntake ==
    /\ Demo /\ pc = "intake"
    /\ \E reply \in IntakeReplies :
        LET r == run_intake_agent(raw_text, reply)
        IN  /\ calls' = Append(calls, Call("intake", raw_text, EmptyDict, <<>>, <<>>, reply, r))
            /\ IF r.ok
               THEN /\ session' = [session EXCEPT !.intake_json = r.val]
                    /\ pc' = "clarifier"
                    /\ error' = error
               ELSE /\ session' = session
                    /\ pc' = "raised"
                    /\ error' = Exception(r.exc, r.msg, "intake")
    /\ UNCHANGED <<entry, raw_text, user_answers>>
    /\ UNCHANGED normalizerVars

\* the exception the printing of the questions raises, "none" if none:
\* enumerate(questions) when the questions are truthy
QuestionsPrintError(questions) ==
    IF Truthy(questions) /\ ~Iterable(questions) THEN "TypeError" ELSE "none"

\* Step 2: the clarifier call, clarifier_output.get("questions", []) and the
\* printing of the questions, all inside the try
DemoClarifier ==
    /\ Demo /\ pc = "clarifier"
    /\ \E reply \in ClarifierReplies :
        LET r == run_clarifier_agent(raw_text, session.intake_json, reply)
            questions == DictGet(r.val, questions_key, EmptyList)
        IN  /\ calls' = Append(calls,
                    Call("clarifier", raw_text, session.intake_json, <<>>, <<>>, reply, r))
            /\ IF ~r.ok
               THEN /\ session' = session
                    /\ pc' = "raised"
                    /\ error' = Exception(r.exc, r.msg, "clarifier")
               ELSE IF ~HasGet(r.val)
               THEN /\ session' = session
                    /\ pc' = "raised"
                    /\ error' = Exception("AttributeError", "get", "clarifier")
               ELSE /\ session' = [session EXCEPT !.clarifier_questions = questions]
                    /\ IF QuestionsPrintError(questions) # "none"
                       THEN /\ pc' = "raised"
                            /\ error' = Exception(QuestionsPrintError(questions),
                                                  "enumerate", "clarifier")
                       ELSE /\ pc' = "answers"
                            /\ error' = error
    /\ UNCHANGED <<entry, raw_text, user_answers>>
    /\ UNCHANGED normalizerVars

\* Step 3: session.clarifier_answers = auto_answer_clarifier_questions(...),
\* outside any try
DemoAutoAnswers ==
    /\ Demo /\ pc = "answers"
    /\ LET a == auto_answer_clarifier_questions(session.clarifier_questions)
       IN  IF a.ok
           THEN /\ session' = [session EXCEPT !.clarifier_answers = a.answers]
                /\ pc' = "summary"
                /\ error' = error
           ELSE /\ session' = session
                /\ pc' = "raised"
                /\ error' = Exception(a.exc, "auto_answer_clarifier_questions", "answers")
    /\ UNCHANGED <<entry, raw_text, user_answers, calls>>
    /\ UNCHANGED normalizerVars

\* (mutant of DemoSummary) the handler swallows the error and the run goes on
DemoSummaryAbsorbs ==
    /\ Demo /\ pc = "summary"
    /\ \E reply \in SummaryReplies :
        LET r == run_summary_agent(raw_text, session.intake_json,
                                   session.clarifier_answers, reply)
        IN  /\ calls' = Append(calls,
                    Call("summary", raw_text, session.intake_json,
                         session.clarifier_answers, <<>>, reply, r))
            /\ session' = IF r.ok THEN [session EXCEPT !.doctor_note = r.text]
                          ELSE session
            /\ pc' = "routing"
            /\ error' = error
    /\ UNCHANGED <<entry, raw_text, user_answers>>
    /\ UNCHANGED normalizerVars

\* Step 4: try: session.doctor_note = run_summary_agent(...) except: raise
DemoSummary ==
    /\ Demo /\ pc = "summary"
    /\ \E reply \in SummaryReplies :
        LET r == run_summary_agent(raw_text, session.intake_json,
                                   session.clarifier_answers, reply)
        IN  /\ calls' = Append(calls,
                    Call("summary", raw_text, session.intake_json,
                         session.clarifier_answers, <<>>, reply, r))
            /\ IF r.ok
               THEN /\ session' = [session EXCEPT !.doctor_note = r.text]
                    /\ pc' = "routing"
                    /\ error' = error
               ELSE /\ session' = session
                    /\ pc' = "raised"
                    /\ error' = Exception(r.exc, r.msg, "summary")
    /\ UNCHANGED <<entry, raw_text, user_answers>>
    /\ UNCHANGED normalizerVars

\* the for loop over doctors or tests raises: enumerate of a truthy value
\* that is not iterable, or .get of an element that is no dict
ListPrintRaises(v) ==
    /\ Truthy(v)
    /\ \/ ~Iterable(v)
       \/ \E i \in 1..Len(Elements(v)) : ~HasGet(Elements(v)[i])

\* the printing of the routing guidance raises
RoutingPrintRaises(guidance) ==
    \/ ~HasGet(guidance)
    \/ ListPrintRaises(DictGet(guidance, recommended_doctors_key, EmptyList))
    \/ ListPrintRaises(DictGet(guidance, possible_test_categories_key, EmptyList))

\* session.routing_guidance when step 5 ends, r being the result of the call:
\* except Exception: session.routing_guidance = {}
RoutingGuidance(r) ==
    IF r.ok /\ ~RoutingPrintRaises(r.val) THEN r.val ELSE EmptyDict

\* (mutant of AfterRouting) the handler raises like those of the other steps
AfterRoutingRaises(r) == IF r.ok THEN "eval" ELSE "raised"

\* where step 5 leaves the run, r being the result of the call: the handler
\* prints the error and does not raise ("Don't raise - routing is optional")
AfterRouting(r) == "eval"

\* Step 5: the routing call and the printing of its result inside a try whose
\* handler does not raise
DemoRouting ==
    /\ Demo /\ pc = "routing"
    /\ \E reply \in RoutingReplies :
        LET r == run_routing_agent(raw_text, session.intake_json, reply)
        IN  /\ calls' = Append(calls,
                    Call("routing", raw_text, session.intake_json, <<>>, <<>>, reply, r))
            /\ session' = [session EXCEPT !.routing_guidance = RoutingGuidance(r)]
            /\ pc' = AfterRouting(r)
            /\ error' = error
    /\ UNCHANGED <<entry, raw_text, user_answers>>
    /\ UNCHANGED normalizerVars

\* (mutant of DemoEval) the eval agent is given the raw text, not the note
DemoEvalOfRawText ==
    /\ Demo /\ pc = "eval"
    /\ \E reply \in EvalReplies :
        LET r == run_eval_agent(raw_text, reply)
        IN  /\ calls' = Append(calls,
                    Call("eval", <<>>, EmptyDict, <<>>, raw_text, reply, r))
            /\ IF r.ok
               THEN /\ session' = [session EXCEPT !.eval_result = r.val]
                    /\ pc' = "report"
                    /\ error' = error
               ELSE /\ session' = session
                    /\ pc' = "raised"
                    /\ error' = Exception(r.exc, r.msg, "eval")
    /\ UNCHANGED <<entry, raw_text, user_answers>>
    /\ UNCHANGED normalizerVars

\* Step 6: try: session.eval_result = run_eval_agent(session.doctor_note)
\* except: raise
DemoEval ==
    /\ Demo /\ pc = "eval"
    /\ \E reply \in EvalReplies :
        LET r == run_eval_agent(session.doctor_note, reply)
        IN  /\ calls' = Append(calls,
                    Call("eval", <<>>, EmptyDict, <<>>, session.doctor_note, reply, r))
            /\ IF r.ok
               THEN /\ session' = [session EXCEPT !.eval_result = r.val]
                    /\ pc' = "report"
                    /\ error' = error
               ELSE /\ session' = session
                    /\ pc' = "raised"
                    /\ error' = Exception(r.exc, r.msg, "eval")
    /\ UNCHANGED <<entry, raw_text, user_answers>>
    /\ UNCHANGED normalizerVars

\* the exception the four summary lines raise, "none" if none
ReportError(s) ==
    IF ~HasGet(s.intake_json) THEN "AttributeError"
    ELSE IF ~HasLen(DictGet(s.intake_json, symptoms_key, EmptyList)) THEN "TypeError"
    ELSE IF ~HasLen(s.clarifier_questions) THEN "TypeError"
    ELSE IF ~HasGet(s.routing_guidance) THEN "AttributeError"
    ELSE IF ~HasLen(DictGet(s.routing_guidance, recommended_doctors_key, EmptyList))
    THEN "TypeError"
    ELSE IF ~HasGet(s.eval_result) THEN "AttributeError"
    ELSE "none"

\* Summary: the four counts printed, then return session
DemoReport ==
    /\ Demo /\ pc = "report"
    /\ IF ReportError(session) = "none"
       THEN /\ pc' = "returned"
            /\ error' = error
       ELSE /\ pc' = "raised"
            /\ error' = Exception(ReportError(session), "summary lines", "report")
    /\ UNCHANGED <<entry, raw_text, user_answers, session, calls>>
    /\ UNCHANGED normalizerVars

(***************************************************************************)
(* run_niracare_with_user_answers, one action per statement: no try, so    *)
(* every exception leaves the entry point.                                 *)
(***************************************************************************)
WithUserAnswers == entry = "run_niracare_with_user_answers"

\* session.intake_json = run_intake_agent(raw_text)
UserIntake ==
    /\ WithUserAnswers /\ pc = "intake"
    /\ \E reply \in IntakeReplies :
        LET r == run_intake_agent(raw_text, reply)
        IN  /\ calls' = Append(calls, Call("intake", raw_text, EmptyDict, <<>>, <<>>, reply, r))
            /\ IF r.ok
               THEN /\ session' = [session EXCEPT !.intake_json = r.val]
                    /\ pc' = "clarifier"
                    /\ error' = error
               ELSE /\ session' = session
                    /\ pc' = "raised"
                    /\ error' = Exception(r.exc, r.msg, "intake")
    /\ UNCHANGED <<entry, raw_text, user_answers>>
    /\ UNCHANGED normalizerVars

\* the clarifier call and clarifier_output.get("questions", [])
UserClarifier ==
    /\ WithUserAnswers /\ pc = "clarifier"
    /\ \E reply \in ClarifierReplies :
        LET r == run_clarifier_agent(raw_text, session.intake_json, reply)
        IN  /\ calls' = Append(calls,
                    Call("clarifier", raw_text, session.intake_json, <<>>, <<>>, reply, r))
            /\ IF ~r.ok
               THEN /\ session' = session
                    /\ pc' = "raised"
                    /\ error' = Exception(r.exc, r.msg, "clarifier")
               ELSE IF ~HasGet(r.val)
               THEN /\ session' = session
                    /\ pc' = "raised"
                    /\ error' = Exception("AttributeError", "get", "clarifier")
               ELSE /\ session' = [session EXCEPT !.clarifier_questions =
                                        DictGet(r.val, questions_key, EmptyList)]
                    /\ pc' = "answers"
                    /\ error' = error
    /\ UNCHANGED <<entry, raw_text, user_answers>>
    /\ UNCHANGED normalizerVars

\* (mutant of UserAnswersStep) the step also resets the intake result
UserAnswersStepResetsIntake ==
    /\ WithUserAnswers /\ pc = "answers"
    /\ session' = [session EXCEPT !.clarifier_answers = user_answers,
                                  !.intake_json = EmptyDict]
    /\ pc' = "summary"
    /\ UNCHANGED <<entry, raw_text, user_answers, error, calls>>
    /\ UNCHANGED normalizerVars

\* session.clarifier_answers = user_answers
UserAnswersStep ==
    /\ WithUserAnswers /\ pc = "answers"
    /\ session' = [session EXCEPT !.clarifier_answers = user_answers]
    /\ pc' = "summary"
    /\ UNCHANGED <<entry, raw_text, user_answers, error, calls>>
    /\ UNCHANGED normalizerVars

\* session.doctor_note = run_summary_agent(...)
UserSummary ==
    /\ WithUserAnswers /\ pc = "summary"
    /\ \E reply \in SummaryReplies :
        LET r == run_summary_agent(raw_text, session.intake_json,
                                   session.clarifier_answers, reply)
        IN  /\ calls' = Append(calls,
                    Call("summary", raw_text, session.intake_json,
                         session.clarifier_answers, <<>>, reply, r))
            /\ IF r.ok
               THEN /\ session' = [session EXCEPT !.doctor_note = r.text]
                    /\ pc' = "eval"
                    /\ error' = error
               ELSE /\ session' = session
                    /\ pc' = "raised"
                    /\ error' = Exception(r.exc, r.msg, "summary")
    /\ UNCHANGED <<entry, raw_text, user_answers>>
    /\ UNCHANGED normalizerVars

\* session.eval_result = run_eval_agent(session.doctor_note); return session
UserEval ==
    /\ WithUserAnswers /\ pc = "eval"
    /\ \E reply \in EvalReplies :
        LET r == run_eval_agent(session.doctor_note, reply)
        IN  /\ calls' = Append(calls,
                    Call("eval", <<>>, EmptyDict, <<>>, session.doctor_note, reply, r))
            /\ IF r.ok
               THEN /\ session' = [session EXCEPT !.eval_result = r.val]
                    /\ pc' = "returned"
                    /\ error' = error
               ELSE /\ session' = session
                    /\ pc' = "raised"
                    /\ error' = Exception(r.exc, r.msg, "eval")
    /\ UNCHANGED <<entry, raw_text, user_answers>>
    /\ UNCHANGED normalizerVars

Next ==
    \/ DemoIntake
    \/ DemoClarifier
    \/ DemoAutoAnswers
    \/ DemoSummary
    \/ DemoRouting
    \/ DemoEval
    \/ DemoReport
    \/ UserIntake
    \/ UserClarifier
    \/ UserAnswersStep
    \/ UserSummary
    \/ UserEval

Spec == Init /\ [][Next]_vars

(***************************************************************************)
(* _extract_json_from_response on its own: every text made of at most      *)
(* MaxBody pieces, normalized as it is and inside a json code fence.       *)
(***************************************************************************)
\* a member of an object: "k":1
MemberText == Quoted(<<"k">>) \o <<":", "1">>

\* a member whose value is an object: "k":{}
NestedText == Quoted(<<"k">>) \o <<":", "{", "}">>

ReplyPieces ==
    { <<"{">>, <<"}">>, <<"1">>, <<" ">>, <<"x">>, Fence, JsonFence, MemberText,
      NestedText }

RECURSIVE Flattened(_)
Flattened(pieces) ==
    IF pieces = <<>> THEN <<>> ELSE Head(pieces) \o Flattened(Tail(pieces))

NormalizerReplies == {Flattened(p) : p \in SeqsUpTo(ReplyPieces, MaxBody)}

\* the whitespace around a fence marker
Pads == {<<>>, <<"\n">>}

\* the reply r inside a fenced code block tagged json
FencedReply(r, outer, inner) ==
    outer \o JsonFence \o inner \o r \o inner \o Fence \o outer

InitNormalizer ==
    /\ entry = "none"
    /\ raw_text = <<>>
    /\ user_answers = <<>>
    /\ pc = "off"
    /\ session = NiraSession(<<>>)
    /\ error = NoError
    /\ calls = <<>>
    /\ response \in NormalizerReplies
    /\ result = NotRun
    /\ fenced_result = NotRun
    /\ npc = "reply"

Normalize ==
    /\ npc = "reply"
    /\ result' = extract_json_from_response(response)
    /\ npc' = "normalized"
    /\ UNCHANGED <<response, fenced_result>>
    /\ UNCHANGED pipelineVars

NormalizeFenced ==
    /\ npc = "normalized"
    /\ \E outer \in Pads, inner \in Pads :
        fenced_result' = extract_json_from_response(FencedReply(response, outer, inner))
    /\ npc' = "fenced"
    /\ UNCHANGED <<response, result>>
    /\ UNCHANGED pipelineVars

NextNormalizer ==
    \/ Normalize
    \/ NormalizeFenced

SpecNormalizer == InitNormalizer /\ [][NextNormalizer]_vars

(***************************************************************************)
(* Vocabulary of the properties.                                           *)
(***************************************************************************)
Called(stage) == \E i \in 1..Len(calls) : calls[i].stage = stage

\* the index of the first call of a stage that was called
IndexOf(stage) == CHOOSE i \in 1..Len(calls) : calls[i].stage = stage

CallOf(stage) == calls[IndexOf(stage)]

CallCount(stage) == Cardinality({i \in 1..Len(calls) : calls[i].stage = stage})

\* the run ended with an exception raised at one of these steps
RaisedAt(steps) == pc = "raised" /\ error.step \in steps

\* step 3 is behind the run
AnswersResolved ==
    \/ pc \in {"summary", "routing", "eval", "report", "returned"}
    \/ RaisedAt({"summary", "routing", "eval", "report"})

\* the intake and eval results have the shape their agents document: a dict,
\* whose symptoms have a length
WellShaped ==
    /\ HasGet(session.intake_json)
    /\ HasLen(DictGet(session.intake_json, symptoms_key, EmptyList))
    /\ HasGet(session.eval_result)

FieldsFrom(stage) ==
    CASE stage = "intake" ->
            {"intake_json", "clarifier_questions", "clarifier_answers",
             "doctor_note", "routing_guidance", "eval_result"}
      [] stage = "clarifier" ->
            {"clarifier_questions", "clarifier_answers", "doctor_note",
             "routing_guidance", "eval_result"}
      [] stage = "summary" -> {"doctor_note", "routing_guidance", "eval_result"}
      [] stage = "eval" -> {"eval_result"}

\* the session holds what the stages before this one returned
PopulatedBefore(stage) ==
    /\ stage # "intake" => session.intake_json = CallOf("intake").val
    /\ stage \in {"summary", "eval"} =>
            session.clarifier_questions =
                DictGet(CallOf("clarifier").val, questions_key, EmptyList)
    /\ stage = "eval" => session.doctor_note = CallOf("summary").text
    /\ (stage = "eval" /\ Called("routing")) =>
            session.routing_guidance \in {EmptyDict, CallOf("routing").val}

\* C2: when the intake, clarifier, summary or eval agent raises, in either
\* entry point, the run ends with that exception, the failed call is the last
\* call made, the session fields of that stage and of the later stages have
\* their initial values and the fields of the earlier stages hold what those
\* stages returned.
C2_FatalStageFailure ==
    \A i \in 1..Len(calls) :
        (~calls[i].ok /\ calls[i].stage \in {"intake", "clarifier", "summary", "eval"}) =>
            /\ i = Len(calls)
            /\ pc = "raised"
            /\ error = Exception(calls[i].exc, calls[i].msg, calls[i].stage)
            /\ \A f \in FieldsFrom(calls[i].stage) : session[f] = NiraSession(raw_text)[f]
            /\ PopulatedBefore(calls[i].stage)

C2_Witness ==
    /\ pc = "raised"
    /\ Called("eval") /\ ~CallOf("eval").ok
    /\ session.intake_json # EmptyDict
    /\ session.clarifier_questions # EmptyList
    /\ session.doctor_note # <<>>
    /\ session.eval_result = EmptyDict

\* the place of a stage in the order of run_niracare_demo
Rank(stage) ==
    CASE stage = "intake" -> 1 [] stage = "clarifier" -> 2 [] stage = "summary" -> 3
      [] stage = "routing" -> 4 [] stage = "eval" -> 5

Stages == {"intake", "clarifier", "summary", "routing", "eval"}

\* C3 (as stated): in both entry points, a run that has called the eval agent
\* has called the routing agent exactly once, after the summary call and
\* before the eval call, and the session holds the routing result or {}.
C3_RoutingBeforeEval ==
    Called("eval") =>
        /\ CallCount("routing") = 1
        /\ IndexOf("summary") < IndexOf("routing")
        /\ IndexOf("routing") < IndexOf("eval")
        /\ session.routing_guidance \in {EmptyDict, CallOf("routing").val}

\* C4 (as stated): the calls of a run are in the order intake, clarifier,
\* summary, routing, eval, none twice, and a stage is called only when every
\* stage before it in that order has been called and has ended.
C4_StagesInOrder ==
    \A i \in 1..Len(calls) :
        /\ \A j \in 1..(i - 1) : Rank(calls[j].stage) < Rank(calls[i].stage)
        /\ \A p \in Stages :
             Rank(p) < Rank(calls[i].stage) =>
                \E j \in 1..(i - 1) : calls[j].stage = p

\* C5 (as stated): a run that ends with an exception ends at step 1, 2, 4 or
\* 6: answer resolution, routing and the lines after step 6 never end it.
C5_AbortOnlyAtFatalSteps ==
    pc = "raised" => error.step \in {"intake", "clarifier", "summary", "eval"}

\* C6 (as stated): a run that returns has a non-empty intake result, a
\* non-empty clarifier result, a non-empty doctor note and a non-empty eval
\* result, and routing guidance that is the routing result or {}.
C6_CompletedRunPopulated ==
    pc = "returned" =>
        /\ Truthy(session.intake_json)
        /\ Truthy(CallOf("clarifier").val)
        /\ session.doctor_note # <<>>
        /\ Truthy(session.eval_result)
        /\ \/ session.routing_guidance = EmptyDict
           \/ Called("routing") /\ session.routing_guidance = CallOf("routing").val

\* C7 (as stated): in run_niracare_with_user_answers, once the answers are
\* set, every clarifier question has an entry in session.clarifier_answers:
\* the caller's answer when the caller gave one, a placeholder otherwise.
C7_EveryQuestionAnswered ==
    (WithUserAnswers /\ AnswersResolved) =>
        \A i \in 1..Len(Elements(session.clarifier_questions)) :
            LET q == Elements(session.clarifier_questions)[i]
            IN  /\ q \in Keys(session.clarifier_answers)
                /\ q \in Keys(user_answers) =>
                      Answer(session.clarifier_answers, q) = Answer(user_answers, q)

ListOfStrings(v) == v.t = "list" /\ \A i \in 1..Len(v.items) : v.items[i].t = "str"

\* C8: in run_niracare_demo, step 3 does not raise on a list of strings, and
\* once step 3 is done the keys of session.clarifier_answers are exactly the
\* clarifier questions, each key once, a question q has the answer
\* "Demo answer for: q", no questions give the empty mapping, and the run is
\* at the summary call or past it.
C8_AutoAnswers ==
    /\ (Demo /\ RaisedAt({"answers"})) => ~ListOfStrings(session.clarifier_questions)
    /\ (Demo /\ AnswersResolved) =>
        LET questions == Elements(session.clarifier_questions)
            answers == session.clarifier_answers
        IN  /\ Keys(answers) = {questions[i] : i \in 1..Len(questions)}
            /\ Len(answers) = Cardinality(Keys(answers))
            /\ \A i \in 1..Len(answers) :
                  answers[i].q.t = "str" =>
                      answers[i].a = DemoAnswerPrefix \o answers[i].q.s
            /\ questions = <<>> => answers = <<>>
            /\ pc = "summary" \/ Called("summary")

C8_Witness ==
    /\ Demo /\ AnswersResolved
    /\ Len(session.clarifier_questions.items) = 2
    /\ session.clarifier_questions.items[1] = session.clarifier_questions.items[2]
    /\ Len(session.clarifier_answers) = 1
    /\ Called("summary")

RECURSIVE BalancedFrom(_, _, _)
\* the braces of s from index i on close the depth open braces and each other
BalancedFrom(s, i, depth) ==
    IF i > Len(s) THEN depth = 0
    ELSE IF s[i] = "{" THEN BalancedFrom(s, i + 1, depth + 1)
    ELSE IF s[i] = "}" THEN depth > 0 /\ BalancedFrom(s, i + 1, depth - 1)
    ELSE BalancedFrom(s, i + 1, depth)

Balanced(s) == BalancedFrom(s, 1, 0)

BraceSpan(s) ==
    IF rfind(s, "}") > find(s, "{") THEN SubSeq(s, find(s, "{"), rfind(s, "}"))
    ELSE SubSeq(s, find(s, "{"), Len(s))

C10_FenceTransparent ==
    npc = "fenced" =>
        /\ fenced_result.ok = result.ok
        /\ result.ok => fenced_result.val = result.val

RECURSIVE MatchingClose(_, _, _)
\* the index of the "}" that closes the depth braces open before index i,
\* 0 when there is none
MatchingClose(s, i, depth) ==
    IF i > Len(s) THEN 0
    ELSE IF s[i] = "{" THEN MatchingClose(s, i + 1, depth + 1)
    ELSE IF s[i] = "}"
    THEN IF depth = 1 THEN i ELSE MatchingClose(s, i + 1, depth - 1)
    ELSE MatchingClose(s, i + 1, depth)

\* the index of the "}" matching the first "{" of s, 0 when there is none
FirstSpanEnd(s) ==
    IF find(s, "{") = 0 THEN 0 ELSE MatchingClose(s, find(s, "{") + 1, 1)

\* s holds exactly one balanced span: its first "{" has a matching "}" and
\* no brace stands before the one or after the other
OneBalancedSpan(s) ==
    /\ FirstSpanEnd(s) # 0
    /\ \A i \in 1..Len(s) :
          (i < find(s, "{") \/ i > FirstSpanEnd(s)) => s[i] \notin {"{", "}"}

\* that span, from the first "{" to its matching "}"
FirstSpan(s) == SubSeq(s, find(s, "{"), FirstSpanEnd(s))

\* C11 (as stated): for a reply with exactly one balanced span, prose before
\* or after it or not, _extract_json_from_response returns the value of that
\* span and raises nothing.
C11_OneSpanParsed ==
    (npc # "reply" /\ OneBalancedSpan(response)) =>
        /\ result.ok
        /\ result.val = json_loads(FirstSpan(response)).val

\* C11 (amended): for a reply with exactly one balanced span, prose or code
\* fences before or after it or not, _extract_json_from_response returns the
\* value of that span, a dict, when the span is the text of a JSON object,
\* and raises ValueError when it is not.
C11_OneObjectSpanParsed ==
    (npc # "reply" /\ OneBalancedSpan(response)) =>
        IF json_loads(FirstSpan(response)).ok
        THEN /\ result.ok
             /\ result.val = json_loads(FirstSpan(response)).val
             /\ result.val.t = "dict"
        ELSE ~result.ok /\ result.exc = "ValueError"

C11_Witness ==
    /\ npc # "reply"
    /\ OneBalancedSpan(response)
    /\ find(response, "{") > 1
    /\ FirstSpan(response) # response
    /\ json_loads(FirstSpan(response)).ok
    /\ result.ok
    /\ result.val.keys # <<>>

\* the message of the ValueError an agent raises when the response has no text
NoResponseMessage(stage) ==
    CASE stage = "intake" -> "No response received from IntakeAgent"
      [] stage = "clarifier" -> "No response received from ClarifierAgent"
      [] stage = "summary" -> "No response received from SummaryAgent"
      [] stage = "routing" -> "No response received from RoutingAgent"
      [] stage = "eval" -> "No response received from EvalAgent"

\* C12: an agent whose response has no text raises the ValueError "No
\* response received from ...Agent" and does not call
\* _extract_json_from_response; the summary agent raises nothing else; an
\* agent that returns JSON gives a response with text to
\* _extract_json_from_response and returns its value or raises its ValueError
\* as it is, whose message is not the one of a response without text; and
\* outside the routing step the entry point raises the error of the agent.
C12_StageFailures ==
    \A i \in 1..Len(calls) :
        LET c == calls[i]
            n == extract_json_from_response(c.reply)
        IN  /\ c.reply = <<>> =>
                  /\ ~c.ok /\ ~c.normalized
                  /\ c.exc = "ValueError" /\ c.msg = NoResponseMessage(c.stage)
            /\ (c.reply # <<>> /\ c.stage = "summary") => c.ok /\ ~c.normalized
            /\ (c.reply # <<>> /\ c.stage # "summary") =>
                  /\ c.normalized
                  /\ c.ok = n.ok /\ c.val = n.val /\ c.exc = n.exc /\ c.msg = n.msg
                  /\ ~c.ok => c.exc = "ValueError" /\ c.msg = FormatError.msg
                  /\ ~c.ok => c.msg # NoResponseMessage(c.stage)
            /\ (~c.ok /\ c.stage # "routing") =>
                  /\ pc = "raised" /\ i = Len(calls)
                  /\ error = Exception(c.exc, c.msg, c.stage)

\* a run where the routing response had no text and the eval response had
\* text that is no JSON
C12_Witness ==
    /\ Called("routing") /\ CallOf("routing").reply = <<>>
    /\ ~CallOf("routing").ok
    /\ Called("eval") /\ CallOf("eval").reply # <<>>
    /\ ~CallOf("eval").ok /\ CallOf("eval").normalized
    /\ CallOf("eval").msg # CallOf("routing").msg
    /\ pc = "raised"

\* the score of an eval result is an integer from 0 to 10
ScoreInRange(eval_result) ==
    /\ HasGet(eval_result)
    /\ \E i \in 1..Len(eval_result.keys) :
          /\ eval_result.keys[i] = score_key
          /\ eval_result.items[i].t = "int"
          /\ eval_result.items[i].n \in 0..10

\* C13 (as stated): the eval result of a run that has returned has a score
\* that is an integer from 0 to 10.
C13_ScoreInRange == pc = "returned" => ScoreInRange(session.eval_result)

\* the place of a step in the order of a run, the two ends of a run last
StepRank(step) ==
    CASE step = "intake" -> 1 [] step = "clarifier" -> 2 [] step = "answers" -> 3
      [] step = "summary" -> 4 [] step = "routing" -> 5 [] step = "eval" -> 6
      [] step = "report" -> 7 [] step \in {"returned", "raised"} -> 8

\* C14: no step changes raw_text; a step changes no field of the session but
\* its own: intake_json changes at the intake step only, clarifier_questions
\* at the clarifier step, clarifier_answers at the answers step, doctor_note
\* at the summary step, routing_guidance at the routing step, eval_result at
\* the eval step; as no step is taken twice, a stored result stays.
C14_StepsWriteOwnField ==
    [][ /\ session'.raw_text = session.raw_text
        /\ session.raw_text = raw_text
        /\ session'.intake_json # session.intake_json => pc = "intake"
        /\ session'.clarifier_questions # session.clarifier_questions => pc = "clarifier"
        /\ session'.clarifier_answers # session.clarifier_answers => pc = "answers"
        /\ session'.doctor_note # session.doctor_note => pc = "summary"
        /\ session'.routing_guidance # session.routing_guidance => pc = "routing"
        /\ session'.eval_result # session.eval_result => pc = "eval"
        /\ StepRank(pc') > StepRank(pc) ]_vars

\* a run that has returned with every field of the session written
C14_Witness ==
    /\ pc = "returned"
    /\ session.raw_text # <<>>
    /\ session.intake_json # EmptyDict
    /\ session.clarifier_questions # EmptyList
    /\ session.clarifier_answers # <<>>
    /\ session.doctor_note # <<>>
    /\ session.eval_result # EmptyDict

\* C15: every agent call was given the values the session held: the
\* intake, clarifier, summary and routing calls the raw text; the clarifier,
\* summary and routing calls the intake result the intake call returned; the
\* summary call the answers of step 3, those of
\* auto_answer_clarifier_questions in run_niracare_demo and the caller's in
\* run_niracare_with_user_answers; the eval call the note the summary call
\* returned and nothing else.
C15_CallArguments ==
    \A i \in 1..Len(calls) :
        LET c == calls[i]
        IN  /\ c.stage # "eval" => c.raw_text = session.raw_text
            /\ c.stage \in {"clarifier", "summary", "routing"} =>
                  /\ c.intake_json = CallOf("intake").val
                  /\ c.intake_json = session.intake_json
            /\ c.stage = "summary" =>
                  /\ c.clarifier_answers = session.clarifier_answers
                  /\ Demo => c.clarifier_answers =
                        auto_answer_clarifier_questions(session.clarifier_questions).answers
                  /\ WithUserAnswers => c.clarifier_answers = user_answers
            /\ c.stage = "eval" =>
                  /\ c.doctor_note = CallOf("summary").text
                  /\ c.doctor_note = session.doctor_note
                  /\ c.raw_text = <<>> /\ c.intake_json = EmptyDict
                  /\ c.clarifier_answers = <<>>

\* a run of run_niracare_demo that made the five calls on an intake result,
\* answers and a note that are not empty
C15_Witness ==
    /\ Demo
    /\ \A stage \in Stages : Called(stage)
    /\ CallOf("routing").intake_json # EmptyDict
    /\ CallOf("summary").clarifier_answers # <<>>
    /\ CallOf("eval").doctor_note # <<>>
    /\ CallOf("eval").doctor_note # raw_text

\* C16 (as stated): what _extract_json_from_response returns is a dict.
C16_ReturnsDict == (npc # "reply" /\ result.ok) => result.val.t = "dict"

\* C17 (as stated): in run_niracare_demo, once step 5 is done after a routing
\* call that returned a value, the routing guidance of the session is that
\* value.
C17_RoutingValueKept ==
    (Demo /\ Called("routing") /\ CallOf("routing").ok) =>
        session.routing_guidance = CallOf("routing").val

====
